---- MODULE Spec2Model ----
(***************************************************************************)
(* Lifecycle model of the smart-doorbell streaming service.                *)
(*                                                                         *)
(*   CameraStreamer   src/src/camera/streamer.py                           *)
(*   DoorbellManager  src/src/doorbell/doorbell_manager.py                 *)
(*                                                                         *)
(* The owning thread executes start()/stop() one statement group at a      *)
(* time (program counter spc, and mpc for the manager); the GLib main-loop *)
(* worker threads and the bus message handler run concurrently with it.    *)
(* None is modelled as 0; pipelines and workers are numbered from 1 in the *)
(* order in which the code creates them.                                   *)
(***************************************************************************)
EXTENDS Integers, Sequences, FiniteSets

VARIABLES
    \* ---- CameraStreamer fields (streamer.py:68-84)
    video_source,        \* self.video_source
    settings,            \* self.rtsp_url, self.width, self.height,
                         \* self.framerate, self.video_bitrate,
                         \* self.audio_source, self.use_hardware_encoding
    ctor_args,           \* the arguments the constructor was called with
    video_pipeline,      \* self.video_pipeline (0 = None, else index in pipes)
    audio_pipeline,      \* self.audio_pipeline (0 = None)
    loop,                \* self.loop           (0 = None, else index in workers)
    thread,              \* self.thread         (0 = None, else index in workers)
    is_running,          \* self.is_running
    _stop_requested,     \* self._stop_requested
    \* ---- the media engine and the threads
    pipes,               \* state of every pipeline Gst.parse_launch has returned
    workers,             \* every GLib.MainLoop / Thread pair start() has created
    h,                   \* the bus message handler in progress
    handler_error,       \* a handler raised (quit() on a None loop)
    \* ---- the owning thread inside CameraStreamer.start()/stop()
    spc,                 \* position inside start()/stop(), "idle" between calls
    stop_ret,            \* who called stop(): "caller" or start()'s "except"
    err,                 \* the exception start() is handling
    video_pipeline_str,  \* the string start() last built for Gst.parse_launch
    cur,                 \* the thread executing the call: 0 = the owner,
                         \* k = worker k
    \* ---- history of the calls
    last_op,           \* the last CameraStreamer call made by the owner
    prev_op,             \* the call made before it
    last_res,            \* how it ended: "pending", "ok", "noop", "raised"
    pre,                 \* the fields as they were when that call was made
    nact,                \* number of set_state(PLAYING) calls made so far
    ever_started,        \* start() has been called on this instance
    timed_out,           \* the join of the last stop() timed out
    fault,               \* a bus Error was handled since the last successful start
    \* ---- DoorbellManager fields (doorbell_manager.py:43-52)
    cfg_source,          \* self.config["video"]["source"]
    state,               \* self.state
    camera_streamer,     \* self.camera_streamer is not None
    _shutdown_requested, \* self._shutdown_requested
    \* ---- the owning thread inside DoorbellManager.start()/stop()
    mpc,                 \* position inside start()/stop(), "idle" between calls
    m_stop_ret,          \* who called stop(): "caller" or start()'s "except"
    m_last_op,           \* the last DoorbellManager call
    m_last_res,          \* how it ended
    m_pre,               \* state and camera_streamer when that call was made
    n_shutdown,          \* times stop() went past its STOPPED test since the
                         \* last run() was entered
    \* ---- the owning thread inside DoorbellManager.run()
    rpc,                 \* position inside run(), "idle" outside
    r_res,               \* how the last run() ended: "returned" or "raised"
    registered,          \* run() has registered _signal_handler
    nsignals,            \* number of termination signals delivered so far
    \* ---- main() (main.py:62-120)
    main_pc,             \* position inside main(), "none" when it is not used
    exit_code,           \* <<c>> once main() has returned c, << >> before
    \* ---- AudioManager fields (audio_manager.py:48-64)
    audio_queue,         \* self.audio_queue: the chunks held, oldest first
    playback_queue,      \* self.playback_queue
    is_capturing,        \* self.is_capturing
    is_playing,          \* self.is_playing
    input_stream,        \* self.input_stream is open
    output_stream,       \* self.output_stream is open
    audio_callback,      \* self.audio_callback is set
    capture_thread,      \* self.capture_thread: index in cthreads, or None
    playback_thread,     \* self.playback_thread: index in pthreads, or None
    \* ---- the threads of _capture_loop and _playback_loop
    cthreads,            \* per capture thread: position, chunk read
    pthreads,            \* per playback thread: position
    \* ---- history of the chunks
    n_captured,          \* chunks read from the microphone so far
    n_queued,            \* chunks passed to queue_audio() so far
    audio_data,          \* the chunk of a queue_audio() in progress, or None
    n_gets,              \* chunks taken out of either queue so far
    last_got,            \* the last chunk get_audio() returned, 0 if none
    last_played          \* the last chunk _playback_loop took, 0 if none
\* @end-variables

sfields == <<video_source, settings, ctor_args, video_pipeline, audio_pipeline, loop, thread,
             is_running, _stop_requested>>
engine  == <<pipes, workers, h, handler_error>>
owner   == <<spc, stop_ret, err, video_pipeline_str, cur>>
history == <<last_op, prev_op, last_res, pre, nact, ever_started, timed_out, fault>>
runv    == <<rpc, r_res, registered, nsignals>>
mainv   == <<main_pc, exit_code>>
audiov  == <<audio_queue, playback_queue, is_capturing, is_playing,
             input_stream, output_stream, audio_callback, capture_thread,
             playback_thread, cthreads, pthreads, n_captured, n_queued, audio_data,
             n_gets, last_got, last_played>>
mgr     == <<cfg_source, audiov, mainv, runv, m_pre, n_shutdown, state, camera_streamer,
             _shutdown_requested, mpc, m_stop_ret, m_last_op, m_last_res>>
vars    == <<sfields, engine, owner, history, mgr>>

\* Bound: number of pipelines Gst.parse_launch may construct in one behaviour.
MaxPipes == 2

\* Bound: number of termination signals delivered in one behaviour.
MaxSignals == 2

None == 0

\* Default RTSP port (streamer.py:42)
rtsp_port == 8554

\* CameraSource (streamer.py:16-20); "other" stands for any value that is not
\* a member of the enum.
CameraSource == {"test", "v4l2", "libcamera"}
VideoSourceValues == CameraSource \cup {"other"}

\* Constructor defaults echoed by get_stats().
width == 1920
height == 1080
framerate == 30
video_bitrate == 2000000

----------------------------------------------------------------------------
\* CameraStreamer.is_streaming
is_streaming == is_running

\* The empty snapshot {} of get_stats().
EmptyStats == << >>

\* The defaults of the constructor's arguments (streamer.py:41-47), which
\* are also the values of DoorbellManager._default_config
\* (doorbell_manager.py:62-83).
DefaultArgs ==
    [rtsp_host     |-> "127.0.0.1",
     rtsp_port     |-> rtsp_port,
     stream_name   |-> "doorbell",
     width         |-> width,
     height        |-> height,
     framerate     |-> framerate,
     video_bitrate |-> video_bitrate,
     audio_source  |-> "none",
     use_hardware_encoding |-> TRUE]

\* Arguments a caller may construct a streamer with: the defaults and a
\* configuration that differs from them in every value.
CtorArgs ==
    {DefaultArgs,
     [rtsp_host     |-> "192.168.1.10",
      rtsp_port     |-> rtsp_port + 1,
      stream_name   |-> "front",
      width         |-> 640,
      height        |-> 480,
      framerate     |-> 15,
      video_bitrate |-> 500000,
      audio_source  |-> "none",
      use_hardware_encoding |-> TRUE]}

\* A string is the sequence of its pieces: literal parts and str values are
\* pieces, an int is formatted as its decimal digits.
Digit == <<"0", "1", "2", "3", "4", "5", "6", "7", "8", "9">>

RECURSIVE Str(_)
\* str(n), what an f-string puts for an int n >= 0
Str(n) ==
    IF n < 10
    THEN <<Digit[n + 1]>>
    ELSE Append(Str(n \div 10), Digit[(n % 10) + 1])

\* CameraStreamer.__init__ (streamer.py:70-74): the fields kept of the
\* arguments a.
Construct(a) ==
    [rtsp_url      |-> <<"rtsp://", a.rtsp_host, ":">> \o Str(a.rtsp_port)
                       \o <<"/", a.stream_name>>,
     width         |-> a.width,
     height        |-> a.height,
     framerate     |-> a.framerate,
     video_bitrate |-> a.video_bitrate,
     audio_source  |-> a.audio_source,
     use_hardware_encoding |-> a.use_hardware_encoding]

\* AudioSource (streamer.py:22-27)
AudioSource == {"test", "alsa", "pulse", "none"}

\* No string built yet.
NoString == << >>

\* The first piece of each source element (streamer.py:105-109).
SourceElement ==
    [test      |-> <<"videotestsrc", "is-live=true">>,
     v4l2      |-> <<"v4l2src", "device=/dev/video0">>,
     libcamera |-> <<"libcamerasrc">>]

\* The software encoder given the bitrate in bits per second and the
\* framerate as keyframe interval.
VideoEncoder_BitsPerSecond ==
    IF settings.use_hardware_encoding
    THEN <<"v4l2h264enc", "extra-controls=\"controls,video_bitrate=">>
         \o Str(settings.video_bitrate)
         \o <<"\"", "!", "video/x-h264,profile=baseline,level=(string)3.1">>
    ELSE <<"x264enc", "bitrate=">> \o Str(settings.video_bitrate)
         \o <<"speed-preset=ultrafast", "tune=zerolatency", "key-int-max=">>
         \o Str(settings.framerate)
         \o <<"bframes=0", "!", "video/x-h264,profile=baseline">>

\* streamer.py:114-129: the encoder and the caps that follow it
VideoEncoder ==
    IF settings.use_hardware_encoding
    THEN <<"v4l2h264enc", "extra-controls=\"controls,video_bitrate=">>
         \o Str(settings.video_bitrate)
         \o <<"\"", "!", "video/x-h264,profile=baseline,level=(string)3.1">>
    ELSE <<"x264enc", "bitrate=">> \o Str(settings.video_bitrate \div 1000)
         \o <<"speed-preset=ultrafast", "tune=zerolatency", "key-int-max=">>
         \o Str(settings.framerate * 2)
         \o <<"bframes=0", "!", "video/x-h264,profile=baseline">>

\* The builder with the parser placed before the encoder.
_build_video_pipeline_string_ParseFirst ==
    SourceElement[video_source]
    \o <<"!", "video/x-raw,width=">> \o Str(settings.width)
    \o <<",height=">> \o Str(settings.height)
    \o <<",framerate=">> \o Str(settings.framerate) \o <<"/1">>
    \o <<"!", "videoconvert", "!", "video/x-raw,format=I420", "!">>
    \o <<"h264parse", "config-interval=-1", "!">>
    \o VideoEncoder
    \o <<"!", "rtspclientsink", "location=">> \o settings.rtsp_url
    \o <<"protocols=tcp", "latency=200">>

\* CameraStreamer._build_video_pipeline_string (streamer.py:95-142) for a
\* source of CameraSource: the pieces of the string, "!" between stages.
_build_video_pipeline_string ==
    SourceElement[video_source]
    \o <<"!", "video/x-raw,width=">> \o Str(settings.width)
    \o <<",height=">> \o Str(settings.height)
    \o <<",framerate=">> \o Str(settings.framerate) \o <<"/1">>
    \o <<"!", "videoconvert", "!", "video/x-raw,format=I420", "!">>
    \o VideoEncoder
    \o <<"!", "h264parse", "config-interval=-1", "!">>
    \o <<"rtspclientsink", "location=">> \o settings.rtsp_url
    \o <<"protocols=tcp", "latency=200">>

\* CameraStreamer._build_audio_pipeline_string (streamer.py:144-166): None
\* for every member of AudioSource, ValueError otherwise.
_build_audio_pipeline_string ==
    IF settings.audio_source \in AudioSource THEN None ELSE "ValueError"

\* get_stats() reporting the bitrate in the unit handed to the software
\* encoder (streamer.py:122) and the resolution as height by width.
get_stats_Kbps ==
    IF video_pipeline = None
    THEN EmptyStats
    ELSE [is_running    |-> is_running,
          rtsp_url      |-> settings.rtsp_url,
          resolution    |-> Str(settings.height) \o <<"x">>
                            \o Str(settings.width),
          framerate     |-> settings.framerate,
          video_bitrate |-> settings.video_bitrate \div 1000,
          audio_enabled |-> FALSE,
          audio_bitrate |-> 0]

\* CameraStreamer.get_stats (streamer.py:272-285)
get_stats ==
    IF video_pipeline = None
    THEN EmptyStats
    ELSE [is_running    |-> is_running,
          rtsp_url      |-> settings.rtsp_url,
          resolution    |-> Str(settings.width) \o <<"x">>
                            \o Str(settings.height),
          framerate     |-> settings.framerate,
          video_bitrate |-> settings.video_bitrate,
          audio_enabled |-> FALSE,
          audio_bitrate |-> 0]

\* The fields of the streamer, and what it has constructed so far.
Snap ==
    [is_running      |-> is_running,
     stop_requested  |-> _stop_requested,
     video_pipeline  |-> video_pipeline,
     audio_pipeline  |-> audio_pipeline,
     loop            |-> loop,
     thread          |-> thread,
     npipes          |-> Len(pipes),
     nworkers        |-> Len(workers),
     nact            |-> nact]

MessageType == {"ERROR", "WARNING", "EOS", "STATE_CHANGED"}

\* No handler in progress; otherwise h holds the worker running the handler,
\* the message type, whether the streamer was running when the message was
\* delivered (with the activation count then), and the handler's position.
NoHandler == [w |-> 0, t |-> "NONE", running |-> FALSE, gen |-> 0, pc |-> "none"]

\* A call returns to its caller with result r.
Return(r) ==
    /\ spc' = "idle"
    /\ last_res' = r

----------------------------------------------------------------------------
\* CameraStreamer.start()

\* The owner enters start().
InvokeStart ==
    /\ spc' = "start_check"
    /\ last_op' = "start"
    /\ prev_op' = last_op
    /\ last_res' = "pending"
    /\ pre' = Snap
    /\ ever_started' = TRUE
    /\ cur' = 0
    /\ UNCHANGED <<stop_ret, err, video_pipeline_str, nact, timed_out, fault>>

\* start() without the is_running test of lines 170-172.
StartCheck_NoGuard ==
    /\ spc = "start_check"
    /\ spc' = "start_build"
    /\ UNCHANGED <<sfields, engine, stop_ret, cur, err, video_pipeline_str, history, mgr>>

\* streamer.py:170-172
StartCheck ==
    /\ spc = "start_check"
    /\ IF is_running
       THEN Return("noop")
       ELSE spc' = "start_build" /\ UNCHANGED last_res
    /\ UNCHANGED <<sfields, engine, stop_ret, cur, err, video_pipeline_str, last_op, prev_op, pre, nact, ever_started,
                   timed_out, fault, mgr>>

\* start() falling back to the test pattern for an unknown source instead
\* of raising ValueError.
StartBuild_FallbackSource ==
    /\ spc = "start_build"
    /\ video_pipeline_str' = IF video_source \in CameraSource
                             THEN _build_video_pipeline_string
                             ELSE SourceElement["test"]
    /\ spc' = "start_parse"
    /\ UNCHANGED err
    /\ UNCHANGED <<sfields, engine, stop_ret, cur, history, mgr>>

\* streamer.py:176 and 104-111: _build_video_pipeline_string
StartBuild ==
    /\ spc = "start_build"
    /\ IF video_source \in CameraSource
       THEN /\ video_pipeline_str' = _build_video_pipeline_string
            /\ spc' = "start_parse"
            /\ UNCHANGED err
       ELSE /\ spc' = "start_except"
            /\ err' = "ValueError"
            /\ UNCHANGED video_pipeline_str
    /\ UNCHANGED <<sfields, engine, stop_ret, cur, history, mgr>>

\* start() keeping a pipeline it still holds instead of constructing one.
StartParse_ReusesPipeline ==
    /\ spc = "start_parse"
    /\ IF video_pipeline # None
       THEN /\ spc' = "start_play"
            /\ UNCHANGED <<err, pipes, video_pipeline>>
       ELSE \/ /\ pipes' = Append(pipes, "constructed")
               /\ video_pipeline' = Len(pipes) + 1
               /\ spc' = "start_play"
               /\ UNCHANGED err
            \/ /\ spc' = "start_except"
               /\ err' = "construction"
               /\ UNCHANGED <<pipes, video_pipeline>>
    /\ UNCHANGED <<video_source, settings, ctor_args, audio_pipeline, loop,
                   thread, is_running, _stop_requested, workers, h,
                   handler_error, stop_ret, video_pipeline_str, cur, history,
                   mgr>>

\* streamer.py:179-184: Gst.parse_launch returns a pipeline or raises
StartParse ==
    /\ spc = "start_parse"
    /\ \/ /\ pipes' = Append(pipes, "constructed")
          /\ video_pipeline' = Len(pipes) + 1
          /\ spc' = "start_play"
          /\ UNCHANGED err
       \/ /\ spc' = "start_except"
          /\ err' = "construction"
          /\ UNCHANGED <<pipes, video_pipeline>>
    /\ UNCHANGED <<video_source, settings, ctor_args, audio_pipeline, loop,
                   thread, is_running, _stop_requested, workers, h,
                   handler_error, stop_ret, video_pipeline_str, cur, history,
                   mgr>>

\* streamer.py:187-189: set_state(PLAYING) succeeds or reports FAILURE
StartPlay ==
    /\ spc = "start_play"
    /\ nact' = nact + 1
    /\ \/ /\ pipes' = [pipes EXCEPT ![video_pipeline] = "playing"]
          /\ spc' = "start_loop"
          /\ UNCHANGED err
       \/ /\ pipes' = [pipes EXCEPT ![video_pipeline] = "failed"]
          /\ spc' = "start_except"
          /\ err' = "activation"
    /\ UNCHANGED <<sfields, workers, h, handler_error, stop_ret,
                   video_pipeline_str, cur, last_op, prev_op, last_res, pre,
                   ever_started, timed_out, fault, mgr>>

\* start() treating an audio source other than "none" as an error.
StartLoop_AudioFatal ==
    /\ spc = "start_loop"
    /\ IF settings.audio_source # "none"
       THEN /\ spc' = "start_except"
            /\ err' = "audio"
            /\ UNCHANGED <<workers, loop>>
       ELSE /\ workers' = Append(workers, [st |-> "created", run |-> FALSE])
            /\ loop' = Len(workers) + 1
            /\ spc' = "start_thread"
            /\ UNCHANGED err
    /\ UNCHANGED <<video_source, settings, ctor_args, video_pipeline,
                   audio_pipeline, thread, is_running, _stop_requested, pipes,
                   h, handler_error, stop_ret, cur, video_pipeline_str,
                   history, mgr>>

\* streamer.py:191-196: for an audio source other than "none" a warning is
\* logged (192-193), which changes nothing; then the loop is created.
StartLoop ==
    /\ spc = "start_loop"
    /\ workers' = Append(workers, [st |-> "created", run |-> FALSE])
    /\ loop' = Len(workers) + 1
    /\ spc' = "start_thread"
    /\ UNCHANGED <<video_source, settings, ctor_args, video_pipeline, audio_pipeline, thread,
                   is_running, _stop_requested, pipes, h, handler_error,
                   stop_ret, cur, err, video_pipeline_str, history, mgr>>

\* streamer.py:197-198: the thread's target is the loop just created
StartThread ==
    /\ spc = "start_thread"
    /\ workers' = [workers EXCEPT ![loop].st = "spawned"]
    /\ thread' = loop
    /\ spc' = "start_running"
    /\ UNCHANGED <<video_source, settings, ctor_args, video_pipeline, audio_pipeline, loop,
                   is_running, _stop_requested, pipes, h, handler_error,
                   stop_ret, cur, err, video_pipeline_str, history, mgr>>

\* streamer.py:200
StartRunning ==
    /\ spc = "start_running"
    /\ is_running' = TRUE
    /\ fault' = FALSE
    /\ spc' = "start_flag"
    /\ UNCHANGED <<video_source, settings, ctor_args, video_pipeline, audio_pipeline, loop, thread,
                   _stop_requested, engine, stop_ret, cur, err, video_pipeline_str, last_op, prev_op, last_res,
                   pre, nact, ever_started, timed_out, mgr>>

\* start() without "self._stop_requested = False".
StartFlag_KeepsFlag ==
    /\ spc = "start_flag"
    /\ Return("ok")
    /\ UNCHANGED <<sfields, engine, stop_ret, cur, err, video_pipeline_str,
                   last_op, prev_op, pre, nact, ever_started, timed_out,
                   fault, mgr>>

\* streamer.py:201-202
StartFlag ==
    /\ spc = "start_flag"
    /\ _stop_requested' = FALSE
    /\ Return("ok")
    /\ UNCHANGED <<video_source, settings, ctor_args, video_pipeline, audio_pipeline, loop, thread,
                   is_running, engine, stop_ret, cur, err, video_pipeline_str, last_op, prev_op, pre, nact,
                   ever_started, timed_out, fault, mgr>>

\* streamer.py:204-206: the except clause calls self.stop()
StartExcept ==
    /\ spc = "start_except"
    /\ spc' = "stop_check"
    /\ stop_ret' = "except"
    /\ UNCHANGED <<sfields, engine, err, video_pipeline_str, cur, history, mgr>>

----------------------------------------------------------------------------
\* CameraStreamer.stop()

\* Thread t (0 = the owner, k = worker k) enters stop().
InvokeStopBy(t) ==
    /\ spc' = "stop_check"
    /\ stop_ret' = "caller"
    /\ cur' = t
    /\ last_op' = IF t = 0 THEN "stop" ELSE "worker_stop"
    /\ prev_op' = last_op
    /\ last_res' = "pending"
    /\ pre' = Snap
    /\ timed_out' = FALSE
    /\ UNCHANGED <<err, video_pipeline_str, nact, ever_started, fault>>

\* The owner enters stop().
InvokeStop == InvokeStopBy(0)

\* stop() returns: to its caller, or into start()'s except clause, which
\* re-raises (streamer.py:207).
StopReturn ==
    Return(IF stop_ret = "except" THEN "raised" ELSE "ok")

\* stop() without the early return of lines 211-212.
StopCheck_NoGuard ==
    /\ spc = "stop_check"
    /\ spc' = "stop_flag"
    /\ UNCHANGED <<sfields, engine, stop_ret, cur, err, video_pipeline_str, history, mgr>>

\* streamer.py:211-212
StopCheck ==
    /\ spc = "stop_check"
    /\ IF ~is_running /\ ~_stop_requested
       THEN StopReturn
       ELSE spc' = "stop_flag" /\ UNCHANGED last_res
    /\ UNCHANGED <<sfields, engine, stop_ret, cur, err, video_pipeline_str, last_op, prev_op, pre, nact, ever_started,
                   timed_out, fault, mgr>>

\* streamer.py:214
StopFlag ==
    /\ spc = "stop_flag"
    /\ _stop_requested' = TRUE
    /\ spc' = "stop_pipelines"
    /\ UNCHANGED <<video_source, settings, ctor_args, video_pipeline, audio_pipeline, loop, thread,
                   is_running, engine, stop_ret, cur, err, video_pipeline_str, history, mgr>>

\* streamer.py:218-225
StopPipelines ==
    /\ spc = "stop_pipelines"
    /\ IF video_pipeline # None
       THEN /\ pipes' = [pipes EXCEPT ![video_pipeline] = "null"]
            /\ video_pipeline' = None
       ELSE UNCHANGED <<pipes, video_pipeline>>
    /\ audio_pipeline' = None
    /\ spc' = "stop_loop"
    /\ UNCHANGED <<video_source, settings, ctor_args, loop, thread, is_running, _stop_requested,
                   workers, h, handler_error, stop_ret, cur, err, video_pipeline_str, history, mgr>>

\* stop() calling self.loop.quit() without the test of line 228: on a
\* None loop the call raises and stop() ends there.
StopLoop_NoGuard ==
    /\ spc = "stop_loop"
    /\ IF loop # None
       THEN /\ workers' = [workers EXCEPT ![loop].run = FALSE]
            /\ loop' = None
            /\ spc' = "stop_join"
            /\ UNCHANGED last_res
       ELSE /\ Return("raised")
            /\ UNCHANGED <<workers, loop>>
    /\ UNCHANGED <<video_source, settings, ctor_args, video_pipeline, audio_pipeline, thread,
                   is_running, _stop_requested, pipes, h, handler_error,
                   stop_ret, cur, err, video_pipeline_str, last_op, prev_op, pre, nact, ever_started,
                   timed_out, fault, mgr>>

\* streamer.py:228-230
StopLoop ==
    /\ spc = "stop_loop"
    /\ IF loop # None
       THEN /\ workers' = [workers EXCEPT ![loop].run = FALSE]
            /\ loop' = None
       ELSE UNCHANGED <<workers, loop>>
    /\ spc' = "stop_join"
    /\ UNCHANGED <<video_source, settings, ctor_args, video_pipeline, audio_pipeline, thread,
                   is_running, _stop_requested, pipes, h, handler_error,
                   stop_ret, cur, err, video_pipeline_str, history, mgr>>

\* stop() giving up when the join times out: it returns without releasing
\* the thread and without line 237.
StopJoin_AbortOnTimeout ==
    /\ spc = "stop_join"
    /\ IF thread # None /\ workers[thread].st # "exited"
       THEN /\ timed_out' = TRUE
            /\ StopReturn
            /\ UNCHANGED thread
       ELSE /\ thread' = None
            /\ spc' = "stop_final"
            /\ UNCHANGED <<timed_out, last_res>>
    /\ UNCHANGED <<video_source, settings, ctor_args, video_pipeline, audio_pipeline, loop,
                   is_running, _stop_requested, engine, stop_ret, cur, err, video_pipeline_str, last_op,
                   prev_op, pre, nact, ever_started, fault, mgr>>

\* stop() joining without a timeout: join() returns only once the worker
\* has exited.
StopJoin_NoTimeout ==
    /\ spc = "stop_join"
    /\ IF thread # None
       THEN /\ workers[thread].st = "exited"
            /\ thread' = None
       ELSE UNCHANGED thread
    /\ spc' = "stop_final"
    /\ UNCHANGED <<video_source, settings, ctor_args, video_pipeline, audio_pipeline, loop,
                   is_running, _stop_requested, engine, stop_ret, cur, err, video_pipeline_str, history,
                   mgr>>

\* stop() joining self.thread without the current_thread() test of line
\* 233: Thread.join() on the current thread raises RuntimeError and stop()
\* ends there.
StopJoin_SelfJoin ==
    /\ spc = "stop_join"
    /\ IF thread # None /\ cur = thread
       THEN /\ Return("raised")
            /\ UNCHANGED <<thread, timed_out>>
       ELSE /\ IF thread # None
               THEN /\ \/ workers[thread].st = "exited" /\ UNCHANGED timed_out
                       \/ workers[thread].st # "exited" /\ timed_out' = TRUE
                    /\ thread' = None
               ELSE UNCHANGED <<thread, timed_out>>
            /\ spc' = "stop_final"
            /\ UNCHANGED last_res
    /\ UNCHANGED <<video_source, settings, ctor_args, video_pipeline, audio_pipeline, loop,
                   is_running, _stop_requested, engine, stop_ret, cur, err, video_pipeline_str,
                   last_op, prev_op, pre, nact, ever_started, fault, mgr>>

\* streamer.py:233-235: the join is made when a thread is held and it is not
\* the thread executing stop(); it ends when the worker has exited or when
\* the 2 second timeout expires, and the thread is released in both cases.
StopJoin ==
    /\ spc = "stop_join"
    /\ IF thread # None /\ cur # thread
       THEN /\ \/ workers[thread].st = "exited" /\ UNCHANGED timed_out
               \/ workers[thread].st # "exited" /\ timed_out' = TRUE
            /\ thread' = None
       ELSE UNCHANGED <<thread, timed_out>>
    /\ spc' = "stop_final"
    /\ UNCHANGED <<video_source, settings, ctor_args, video_pipeline, audio_pipeline, loop,
                   is_running, _stop_requested, engine, stop_ret, cur, err, video_pipeline_str, last_op,
                   prev_op, last_res, pre, nact, ever_started, fault, mgr>>

\* streamer.py:237-238
StopFinal ==
    /\ spc = "stop_final"
    /\ is_running' = FALSE
    /\ StopReturn
    /\ UNCHANGED <<video_source, settings, ctor_args, video_pipeline, audio_pipeline, loop, thread,
                   _stop_requested, engine, stop_ret, cur, err, video_pipeline_str, last_op, prev_op, pre, nact,
                   ever_started, timed_out, fault, mgr>>

----------------------------------------------------------------------------
\* The notification worker: threading.Thread(target=self.loop.run)

\* The thread enters GLib.MainLoop.run(), which marks the loop running.
WorkerRun(k) ==
    /\ workers[k].st = "spawned"
    /\ workers' = [workers EXCEPT ![k].st = "looping", ![k].run = TRUE]
    /\ UNCHANGED <<sfields, pipes, h, handler_error, owner, history, mgr>>

\* Worker k is inside a callback: a bus message handler, or a stop() that
\* it executes itself.
WorkerBusy(k) ==
    \/ h.w = k
    \/ cur = k /\ spc # "idle"

\* run() returns once quit() has been called on the loop; the thread ends.
WorkerExit(k) ==
    /\ workers[k].st = "looping"
    /\ ~workers[k].run
    /\ ~WorkerBusy(k)
    /\ workers' = [workers EXCEPT ![k].st = "exited"]
    /\ UNCHANGED <<sfields, pipes, h, handler_error, owner, history, mgr>>

\* The bus of an activated pipeline posts a message and a running loop
\* dispatches it to _on_bus_message (streamer.py:182-184, 240-242).
BusMessage(k, t) ==
    /\ workers[k].st = "looping"
    /\ workers[k].run
    /\ ~WorkerBusy(k)
    /\ h = NoHandler
    /\ \E p \in 1..Len(pipes) : pipes[p] \in {"playing", "failed"}
    /\ h' = [w |-> k, t |-> t, running |-> is_running, gen |-> nact,
             pc |-> "entry"]
    /\ UNCHANGED <<sfields, pipes, workers, handler_error, owner, history, mgr>>

\* The handler returns.
HandlerDone ==
    /\ h' = NoHandler
    /\ fault' = (fault \/ (h.t = "ERROR" /\ h.running /\ h.gen = nact))

\* streamer.py:244-266: the branch on the message type; Error and EOS test
\* self.loop (248, 257), Warning and StateChanged only log.
OnBusMessage ==
    /\ h.pc = "entry"
    /\ IF h.t \in {"ERROR", "EOS"} /\ loop # None
       THEN h' = [h EXCEPT !.pc = "quit"] /\ UNCHANGED fault
       ELSE HandlerDone
    /\ UNCHANGED <<sfields, pipes, workers, handler_error, owner, last_op,
                   prev_op, last_res, pre, nact, ever_started, timed_out, mgr>>

\* A handler that tears the stream down itself instead of only quitting the
\* loop: it also forces the pipeline to null and releases it, releases the
\* loop and clears is_running.
OnBusMessageQuit_CallsStop ==
    /\ h.pc = "quit"
    /\ IF loop # None
       THEN workers' = [workers EXCEPT ![loop].run = FALSE]
            /\ UNCHANGED handler_error
       ELSE handler_error' = TRUE /\ UNCHANGED workers
    /\ IF video_pipeline # None
       THEN pipes' = [pipes EXCEPT ![video_pipeline] = "null"]
       ELSE UNCHANGED pipes
    /\ video_pipeline' = None
    /\ loop' = None
    /\ is_running' = FALSE
    /\ _stop_requested' = TRUE
    /\ HandlerDone
    /\ UNCHANGED <<video_source, settings, ctor_args, audio_pipeline, thread, owner, last_op,
                   prev_op, last_res, pre, nact, ever_started, timed_out, mgr>>

\* streamer.py:249, 258: self.loop.quit(), on whatever self.loop is now
OnBusMessageQuit ==
    /\ h.pc = "quit"
    /\ IF loop # None
       THEN workers' = [workers EXCEPT ![loop].run = FALSE]
            /\ UNCHANGED handler_error
       ELSE handler_error' = TRUE /\ UNCHANGED workers
    /\ HandlerDone
    /\ UNCHANGED <<sfields, pipes, owner, last_op, prev_op, last_res, pre, nact,
                   ever_started, timed_out, mgr>>

----------------------------------------------------------------------------
\* A CameraStreamer used directly by its owning thread.

CallStart ==
    /\ spc = "idle"
    /\ is_running \/ Len(pipes) < MaxPipes
    /\ InvokeStart
    /\ UNCHANGED <<sfields, engine, mgr>>

CallStop ==
    /\ spc = "idle"
    /\ InvokeStop
    /\ UNCHANGED <<sfields, engine, mgr>>

StreamerInit ==
    /\ settings = Construct(ctor_args)
    /\ video_pipeline = None
    /\ audio_pipeline = None
    /\ loop = None
    /\ thread = None
    /\ is_running = FALSE
    /\ _stop_requested = FALSE

HistoryInit ==
    /\ pipes = << >>
    /\ workers = << >>
    /\ h = NoHandler
    /\ handler_error = FALSE
    /\ spc = "idle"
    /\ stop_ret = "caller"
    /\ err = "none"
    /\ video_pipeline_str = NoString
    /\ cur = 0
    /\ last_op = "none"
    /\ prev_op = "none"
    /\ last_res = "none"
    /\ pre = [is_running |-> FALSE, stop_requested |-> FALSE,
              video_pipeline |-> None, audio_pipeline |-> None,
              loop |-> None, thread |-> None,
              npipes |-> 0, nworkers |-> 0, nact |-> 0]
    /\ nact = 0
    /\ ever_started = FALSE
    /\ timed_out = FALSE
    /\ fault = FALSE

\* AudioManager.__init__ (audio_manager.py:48-64): both queues empty.
AudioInit ==
    /\ audio_queue = << >>
    /\ playback_queue = << >>
    /\ is_capturing = FALSE
    /\ is_playing = FALSE
    /\ input_stream = FALSE
    /\ output_stream = FALSE
    /\ audio_callback = FALSE
    /\ capture_thread = None
    /\ playback_thread = None
    /\ cthreads = << >>
    /\ pthreads = << >>
    /\ n_captured = 0
    /\ n_queued = 0
    /\ audio_data = None
    /\ n_gets = 0
    /\ last_got = 0
    /\ last_played = 0

ManagerInit ==
    /\ state = "STOPPED"
    /\ camera_streamer = FALSE
    /\ _shutdown_requested = FALSE
    /\ mpc = "idle"
    /\ m_stop_ret = "caller"
    /\ m_last_op = "none"
    /\ m_last_res = "none"
    /\ m_pre = [state |-> "STOPPED", camera_streamer |-> FALSE]
    /\ n_shutdown = 0
    /\ rpc = "idle"
    /\ r_res = "none"
    /\ registered = FALSE
    /\ nsignals = 0
    /\ main_pc = "none"
    /\ exit_code = << >>
    /\ AudioInit

Init ==
    /\ video_source \in VideoSourceValues
    /\ ctor_args = DefaultArgs
    /\ cfg_source = "test"
    /\ StreamerInit
    /\ HistoryInit
    /\ ManagerInit

StreamerStep ==
    \/ StartCheck
    \/ StartBuild
    \/ StartParse
    \/ StartPlay
    \/ StartLoop
    \/ StartThread
    \/ StartRunning
    \/ StartFlag
    \/ StartExcept
    \/ StopCheck
    \/ StopFlag
    \/ StopPipelines
    \/ StopLoop
    \/ StopJoin
    \/ StopFinal

EngineStep ==
    \/ \E k \in 1..Len(workers) : WorkerRun(k)
    \/ \E k \in 1..Len(workers) : WorkerExit(k)
    \/ \E k \in 1..Len(workers), t \in MessageType : BusMessage(k, t)
    \/ OnBusMessage
    \/ OnBusMessageQuit

Next ==
    \/ CallStart
    \/ CallStop
    \/ StreamerStep
    \/ EngineStep

Spec == Init /\ [][Next]_vars

----------------------------------------------------------------------------
\* A CameraStreamer whose stop() is also called from a callback that the
\* notification worker dispatches (the case of streamer.py:232-233), the
\* callers being serialized: no call is made while another is in progress.

WorkerCallStop(k) ==
    /\ spc = "idle"
    /\ workers[k].st = "looping"
    /\ workers[k].run
    /\ h = NoHandler
    /\ InvokeStopBy(k)
    /\ UNCHANGED <<sfields, engine, mgr>>

NextWorkerStop ==
    \/ CallStart
    \/ CallStop
    \/ \E k \in 1..Len(workers) : WorkerCallStop(k)
    \/ StreamerStep
    \/ EngineStep

SpecWorkerStop == Init /\ [][NextWorkerStop]_vars

----------------------------------------------------------------------------
\* DoorbellManager.start() and stop(), which own one CameraStreamer.

\* A DoorbellManager call returns to its caller with result r.
MReturn(r) ==
    /\ mpc' = "idle"
    /\ m_last_res' = r

\* The state of the manager as its callers see it.
MSnap == [state |-> state, camera_streamer |-> camera_streamer]

\* The owner enters DoorbellManager.start().
MInvokeStart ==
    /\ mpc' = "m_start_check"
    /\ m_last_op' = "start"
    /\ m_last_res' = "pending"
    /\ m_pre' = MSnap

\* The owner enters DoorbellManager.stop().
MInvokeStop ==
    /\ mpc' = "m_stop_check"
    /\ m_stop_ret' = "caller"
    /\ m_last_op' = "stop"
    /\ m_last_res' = "pending"
    /\ m_pre' = MSnap

\* The owner calls DoorbellManager.start().
MCallStart ==
    /\ mpc = "idle"
    /\ rpc = "idle"
    /\ state = "RUNNING" \/ Len(pipes) < MaxPipes
    /\ MInvokeStart
    /\ UNCHANGED <<sfields, engine, owner, history, cfg_source, audiov, mainv, runv, n_shutdown, state,
                   camera_streamer, _shutdown_requested, m_stop_ret>>

\* doorbell_manager.py:111-113
MStartCheck ==
    /\ mpc = "m_start_check"
    /\ IF state = "RUNNING"
       THEN MReturn("noop")
       ELSE mpc' = "m_starting" /\ UNCHANGED m_last_res
    /\ UNCHANGED <<sfields, engine, owner, history, cfg_source, audiov, mainv, runv, m_pre, n_shutdown, state,
                   camera_streamer, _shutdown_requested, m_stop_ret, m_last_op>>

\* doorbell_manager.py:115-116
MStarting ==
    /\ mpc = "m_starting"
    /\ state' = "STARTING"
    /\ mpc' = "m_start_camera"
    /\ UNCHANGED <<sfields, engine, owner, history, cfg_source, audiov, mainv, runv, m_pre, n_shutdown,
                   camera_streamer, _shutdown_requested, m_stop_ret, m_last_op,
                   m_last_res>>

\* doorbell_manager.py:161-192 (_start_camera): video_source_map[...] raises
\* KeyError for a source string that is not a key; otherwise a new
\* CameraStreamer is constructed (streamer.py:68-84).
MStartCamera ==
    /\ mpc = "m_start_camera"
    /\ IF cfg_source \in CameraSource
       THEN /\ camera_streamer' = TRUE
            /\ video_source' = cfg_source
            /\ settings' = Construct(ctor_args)
            /\ UNCHANGED ctor_args
            /\ video_pipeline' = None
            /\ audio_pipeline' = None
            /\ loop' = None
            /\ thread' = None
            /\ is_running' = FALSE
            /\ _stop_requested' = FALSE
            /\ last_op' = "none"
            /\ prev_op' = "none"
            /\ last_res' = "none"
            /\ ever_started' = FALSE
            /\ timed_out' = FALSE
            /\ fault' = FALSE
            /\ mpc' = "m_camera_start"
            /\ UNCHANGED <<pre, nact>>
       ELSE /\ mpc' = "m_error"
            /\ UNCHANGED <<sfields, history, camera_streamer>>
    /\ UNCHANGED <<engine, owner, cfg_source, audiov, mainv, runv, m_pre, n_shutdown, state, _shutdown_requested,
                   m_stop_ret, m_last_op, m_last_res>>

\* doorbell_manager.py:194: self.camera_streamer.start() is entered
MCameraStart ==
    /\ mpc = "m_camera_start"
    /\ spc = "idle"
    /\ InvokeStart
    /\ mpc' = "m_camera_wait"
    /\ UNCHANGED <<sfields, engine, cfg_source, audiov, mainv, runv, m_pre, n_shutdown, state, camera_streamer,
                   _shutdown_requested, m_stop_ret, m_last_op, m_last_res>>

\* _start_camera swallowing the exception of camera_streamer.start().
MCameraStarted_Swallow ==
    /\ mpc = "m_camera_wait"
    /\ spc = "idle"
    /\ mpc' = "m_running"
    /\ UNCHANGED <<sfields, engine, owner, history, cfg_source, audiov, mainv, runv, m_pre, n_shutdown, state,
                   camera_streamer, _shutdown_requested, m_stop_ret, m_last_op,
                   m_last_res>>

\* doorbell_manager.py:194-195 and 134: camera_streamer.start() has
\* returned, or has raised into start()'s except clause
MCameraStarted ==
    /\ mpc = "m_camera_wait"
    /\ spc = "idle"
    /\ mpc' = IF last_res = "raised" THEN "m_error" ELSE "m_running"
    /\ UNCHANGED <<sfields, engine, owner, history, cfg_source, audiov, mainv, runv, m_pre, n_shutdown, state,
                   camera_streamer, _shutdown_requested, m_stop_ret, m_last_op,
                   m_last_res>>

\* doorbell_manager.py:131-132
MRunning ==
    /\ mpc = "m_running"
    /\ state' = "RUNNING"
    /\ MReturn("ok")
    /\ UNCHANGED <<sfields, engine, owner, history, cfg_source, audiov, mainv, runv, m_pre, n_shutdown,
                   camera_streamer, _shutdown_requested, m_stop_ret, m_last_op>>

\* doorbell_manager.py:134-137: the except clause sets ERROR and calls stop()
MError ==
    /\ mpc = "m_error"
    /\ state' = "ERROR"
    /\ mpc' = "m_stop_check"
    /\ m_stop_ret' = "except"
    /\ UNCHANGED <<sfields, engine, owner, history, cfg_source, audiov, mainv, runv, m_pre, n_shutdown,
                   camera_streamer, _shutdown_requested, m_last_op, m_last_res>>

\* The owner calls DoorbellManager.stop().
MCallStop ==
    /\ mpc = "idle"
    /\ rpc = "idle"
    /\ MInvokeStop
    /\ UNCHANGED <<sfields, engine, owner, history, cfg_source, audiov, mainv, runv, n_shutdown, state,
                   camera_streamer, _shutdown_requested>>

\* stop() returns: to its caller, or into start()'s except clause, which
\* re-raises (doorbell_manager.py:138).
MStopReturn ==
    MReturn(IF m_stop_ret = "except" THEN "raised" ELSE "ok")

\* stop() returning at once unless the state is RUNNING.
MStopCheck_OnlyRunning ==
    /\ mpc = "m_stop_check"
    /\ IF state # "RUNNING"
       THEN MStopReturn
       ELSE mpc' = "m_stopping" /\ UNCHANGED m_last_res
    /\ UNCHANGED <<sfields, engine, owner, history, cfg_source, audiov, mainv, runv, m_pre,
                   n_shutdown, state, camera_streamer, _shutdown_requested,
                   m_stop_ret, m_last_op>>

\* doorbell_manager.py:142-143
MStopCheck ==
    /\ mpc = "m_stop_check"
    /\ IF state = "STOPPED"
       THEN MStopReturn
       ELSE mpc' = "m_stopping" /\ UNCHANGED m_last_res
    /\ UNCHANGED <<sfields, engine, owner, history, cfg_source, audiov, mainv, runv, m_pre, n_shutdown, state,
                   camera_streamer, _shutdown_requested, m_stop_ret, m_last_op>>

\* doorbell_manager.py:145-146
MStopping ==
    /\ mpc = "m_stopping"
    /\ state' = "STOPPING"
    /\ n_shutdown' = IF rpc # "idle" THEN n_shutdown + 1 ELSE n_shutdown
    /\ mpc' = "m_stop_camera"
    /\ UNCHANGED <<sfields, engine, owner, history, cfg_source, audiov, mainv, runv, m_pre,
                   camera_streamer, _shutdown_requested, m_stop_ret, m_last_op,
                   m_last_res>>

\* doorbell_manager.py:152, 199-201 (_stop_camera): camera_streamer.stop()
\* is entered if a streamer is held
MStopCamera ==
    /\ mpc = "m_stop_camera"
    /\ spc = "idle"
    /\ IF camera_streamer
       THEN InvokeStop /\ mpc' = "m_camera_stop_wait"
       ELSE mpc' = "m_stopped" /\ UNCHANGED <<owner, history>>
    /\ UNCHANGED <<sfields, engine, cfg_source, audiov, mainv, runv, m_pre, n_shutdown, state, camera_streamer,
                   _shutdown_requested, m_stop_ret, m_last_op, m_last_res>>

\* _stop_camera() without "self.camera_streamer = None".
MCameraStopped_KeepsStreamer ==
    /\ mpc = "m_camera_stop_wait"
    /\ spc = "idle"
    /\ mpc' = "m_stopped"
    /\ UNCHANGED <<sfields, engine, owner, history, cfg_source, audiov, mainv, runv,
                   m_pre, n_shutdown, state, camera_streamer,
                   _shutdown_requested, m_stop_ret, m_last_op, m_last_res>>

\* doorbell_manager.py:201-203: camera_streamer.stop() has returned
MCameraStopped ==
    /\ mpc = "m_camera_stop_wait"
    /\ spc = "idle"
    /\ camera_streamer' = FALSE
    /\ mpc' = "m_stopped"
    /\ UNCHANGED <<sfields, engine, owner, history, cfg_source, audiov, mainv, runv, m_pre, n_shutdown, state,
                   _shutdown_requested, m_stop_ret, m_last_op, m_last_res>>

\* doorbell_manager.py:154-155
MStopped ==
    /\ mpc = "m_stopped"
    /\ state' = "STOPPED"
    /\ MStopReturn
    /\ UNCHANGED <<sfields, engine, owner, history, cfg_source, audiov, mainv, runv, m_pre, n_shutdown,
                   camera_streamer, _shutdown_requested, m_stop_ret, m_last_op>>

ManagerStep ==
    \/ MStartCheck
    \/ MStarting
    \/ MStartCamera
    \/ MCameraStart
    \/ MCameraStarted
    \/ MRunning
    \/ MError
    \/ MStopCheck
    \/ MStopping
    \/ MStopCamera
    \/ MCameraStopped
    \/ MStopped

\* The service: a DoorbellManager with the configured video source string.
\* The arguments _start_camera passes to the constructor, from the
\* configuration (doorbell_manager.py:60-83 and 179-192, main.py:75-92).
ManagerArgs == [DefaultArgs EXCEPT !.use_hardware_encoding = FALSE]

InitMgr ==
    /\ cfg_source \in VideoSourceValues
    /\ video_source = "test"
    /\ ctor_args = ManagerArgs
    /\ StreamerInit
    /\ HistoryInit
    /\ ManagerInit

NextMgr ==
    \/ MCallStart
    \/ MCallStop
    \/ ManagerStep
    \/ StreamerStep
    \/ EngineStep

SpecMgr == InitMgr /\ [][NextMgr]_vars

\* The owning thread keeps running: every statement of a call in progress
\* is eventually executed.  Nothing is assumed of the workers.
FairSpecMgr == SpecMgr /\ WF_vars(ManagerStep \/ StreamerStep)

----------------------------------------------------------------------------
\* DoorbellManager.run(), get_status() and the signal handler.

\* The audio, button and matter blocks of the status: the "enabled" flags
\* of the configuration (all False, doorbell_manager.py:72, 87, 94) and
\* constants.
StatusOfSubsystems(camera) ==
    [state          |-> state,
     uptime_seconds |-> 0,
     camera         |-> camera,
     audio          |-> [enabled |-> FALSE, capturing |-> FALSE],
     button         |-> [enabled |-> FALSE, last_press |-> None],
     matter         |-> [enabled |-> FALSE, commissioned |-> FALSE]]

\* get_status() calling the streamer without the "if self.camera_streamer"
\* tests of lines 211-212: with no streamer the call raises.
get_status_NoGuard ==
    IF camera_streamer
    THEN StatusOfSubsystems([streaming |-> is_streaming, stats |-> get_stats])
    ELSE [raised |-> "AttributeError"]

\* DoorbellManager.get_status (doorbell_manager.py:205-228)
get_status ==
    StatusOfSubsystems(
        [streaming |-> IF camera_streamer THEN is_streaming ELSE FALSE,
         stats     |-> IF camera_streamer THEN get_stats ELSE EmptyStats])

\* run() is entered.
InvokeRun ==
    /\ rpc' = "r_register"
    /\ r_res' = "pending"
    /\ n_shutdown' = 0

\* The owner calls run().
RunCall ==
    /\ rpc = "idle"
    /\ mpc = "idle"
    /\ Len(pipes) < MaxPipes
    /\ InvokeRun
    /\ UNCHANGED <<sfields, engine, owner, history, cfg_source, audiov, mainv, registered,
                   nsignals, m_pre, state, camera_streamer,
                   _shutdown_requested, mpc, m_stop_ret, m_last_op,
                   m_last_res>>

\* run() clearing the shutdown flag when it is entered.
RunRegister_ClearsFlag ==
    /\ rpc = "r_register"
    /\ registered' = TRUE
    /\ _shutdown_requested' = FALSE
    /\ rpc' = "r_start"
    /\ UNCHANGED <<sfields, engine, owner, history, cfg_source, audiov, mainv, r_res,
                   nsignals, m_pre, n_shutdown, state, camera_streamer, mpc,
                   m_stop_ret, m_last_op, m_last_res>>

\* doorbell_manager.py:234-235
RunRegister ==
    /\ rpc = "r_register"
    /\ registered' = TRUE
    /\ rpc' = "r_start"
    /\ UNCHANGED <<sfields, engine, owner, history, cfg_source, audiov, mainv, r_res,
                   nsignals, m_pre, n_shutdown, state, camera_streamer,
                   _shutdown_requested, mpc, m_stop_ret, m_last_op,
                   m_last_res>>

\* doorbell_manager.py:238: self.start() is entered
RunStart ==
    /\ rpc = "r_start"
    /\ MInvokeStart
    /\ rpc' = "r_wait_start"
    /\ UNCHANGED <<sfields, engine, owner, history, cfg_source, audiov, mainv, r_res,
                   registered, nsignals, n_shutdown, state, camera_streamer,
                   _shutdown_requested, m_stop_ret>>

\* doorbell_manager.py:238-246: start() has returned, or has raised, which
\* ends run() since the call is outside the try statement
RunStarted ==
    /\ rpc = "r_wait_start"
    /\ mpc = "idle"
    /\ IF m_last_res = "raised"
       THEN rpc' = "idle" /\ r_res' = "raised"
       ELSE rpc' = "r_loop" /\ UNCHANGED r_res
    /\ UNCHANGED <<sfields, engine, owner, history, cfg_source, audiov, mainv, registered,
                   nsignals, m_pre, n_shutdown, state, camera_streamer,
                   _shutdown_requested, mpc, m_stop_ret, m_last_op,
                   m_last_res>>

\* A loop that tests the state only, not the shutdown flag.
RunLoopCheck_IgnoreFlag ==
    /\ rpc = "r_loop"
    /\ rpc' = IF state = "RUNNING" THEN "r_sleep" ELSE "r_finally"
    /\ UNCHANGED <<sfields, engine, owner, history, cfg_source, audiov, mainv, r_res,
                   registered, nsignals, m_pre, n_shutdown, state,
                   camera_streamer, _shutdown_requested, mpc, m_stop_ret,
                   m_last_op, m_last_res>>

\* doorbell_manager.py:247: the loop condition
RunLoopCheck ==
    /\ rpc = "r_loop"
    /\ rpc' = IF ~_shutdown_requested /\ state = "RUNNING"
              THEN "r_sleep"
              ELSE "r_finally"
    /\ UNCHANGED <<sfields, engine, owner, history, cfg_source, audiov, mainv, r_res,
                   registered, nsignals, m_pre, n_shutdown, state,
                   camera_streamer, _shutdown_requested, mpc, m_stop_ret,
                   m_last_op, m_last_res>>

\* doorbell_manager.py:248-251: the sleep, then the status check when the
\* logger is enabled for DEBUG
RunSleep ==
    /\ rpc = "r_sleep"
    /\ \/ rpc' = "r_status"
       \/ rpc' = "r_loop"
    /\ UNCHANGED <<sfields, engine, owner, history, cfg_source, audiov, mainv, r_res,
                   registered, nsignals, m_pre, n_shutdown, state,
                   camera_streamer, _shutdown_requested, mpc, m_stop_ret,
                   m_last_op, m_last_res>>

\* doorbell_manager.py:252-253: get_status() returns its snapshot, which is
\* logged
RunStatus ==
    /\ rpc = "r_status"
    /\ get_status.state = state
    /\ rpc' = "r_loop"
    /\ UNCHANGED <<sfields, engine, owner, history, cfg_source, audiov, mainv, r_res,
                   registered, nsignals, m_pre, n_shutdown, state,
                   camera_streamer, _shutdown_requested, mpc, m_stop_ret,
                   m_last_op, m_last_res>>

\* doorbell_manager.py:257-258: self.stop() is entered
RunFinally ==
    /\ rpc = "r_finally"
    /\ MInvokeStop
    /\ rpc' = "r_wait_stop"
    /\ UNCHANGED <<sfields, engine, owner, history, cfg_source, audiov, mainv, r_res,
                   registered, nsignals, n_shutdown, state, camera_streamer,
                   _shutdown_requested>>

\* doorbell_manager.py:258: stop() has returned and run() returns
RunStopped ==
    /\ rpc = "r_wait_stop"
    /\ mpc = "idle"
    /\ rpc' = "idle"
    /\ r_res' = "returned"
    /\ UNCHANGED <<sfields, engine, owner, history, cfg_source, audiov, mainv, registered,
                   nsignals, m_pre, n_shutdown, state, camera_streamer,
                   _shutdown_requested, mpc, m_stop_ret, m_last_op,
                   m_last_res>>

\* A handler that shuts the service down itself: besides setting the flag
\* it stops the manager.
SignalHandler_CallsStop ==
    /\ registered
    /\ nsignals < MaxSignals
    /\ nsignals' = nsignals + 1
    /\ _shutdown_requested' = TRUE
    /\ state' = "STOPPED"
    /\ camera_streamer' = FALSE
    /\ UNCHANGED <<sfields, engine, owner, history, cfg_source, audiov, mainv, rpc, r_res,
                   registered, m_pre, n_shutdown, mpc, m_stop_ret, m_last_op,
                   m_last_res>>

\* doorbell_manager.py:260-263 (_signal_handler), run by the interpreter
\* between two steps of the owning thread once run() has registered it
SignalHandler ==
    /\ registered
    /\ nsignals < MaxSignals
    /\ nsignals' = nsignals + 1
    /\ _shutdown_requested' = TRUE
    /\ UNCHANGED <<sfields, engine, owner, history, cfg_source, audiov, mainv, rpc, r_res,
                   registered, m_pre, n_shutdown, state, camera_streamer, mpc,
                   m_stop_ret, m_last_op, m_last_res>>

RunStep ==
    \/ RunRegister
    \/ RunStart
    \/ RunStarted
    \/ RunLoopCheck
    \/ RunSleep
    \/ RunStatus
    \/ RunFinally
    \/ RunStopped

\* The service: run() called on a DoorbellManager, signals arriving at any
\* time after the handlers are registered.
NextRun ==
    \/ RunCall
    \/ RunStep
    \/ SignalHandler
    \/ ManagerStep
    \/ StreamerStep
    \/ EngineStep

SpecRun == InitMgr /\ [][NextRun]_vars

\* The owning thread keeps running; nothing is assumed of the workers nor
\* of the arrival of signals.
FairSpecRun == SpecRun /\ WF_vars(RunStep \/ ManagerStep \/ StreamerStep)

----------------------------------------------------------------------------
\* Properties of CameraStreamer (specification Spec)

StopPcs == {"stop_check", "stop_flag", "stop_pipelines", "stop_loop",
            "stop_join", "stop_final"}
MStopPcs == {"m_stop_check", "m_stopping", "m_stop_camera",
             "m_camera_stop_wait", "m_stopped"}

\* C1: once start() has raised because set_state(PLAYING) reported failure,
\* is_streaming() is false and get_stats() is the empty snapshot.
C1_FailedActivationLeavesEmptyStats ==
    (spc = "idle" /\ last_op = "start" /\ last_res = "raised"
        /\ err = "activation")
    => (~is_streaming /\ get_stats = EmptyStats)

\* C2: once start() has raised, every pipeline it constructed has been forced
\* to the null state and the streamer references no pipeline.
C2_FailedStartReleasesPipeline ==
    (spc = "idle" /\ last_op = "start" /\ last_res = "raised")
    => /\ video_pipeline = None
       /\ \A p \in (pre.npipes + 1)..Len(pipes) : pipes[p] = "null"

\* C3: after a bus Error handled while the streamer was running, and until
\* the next successful start(), is_streaming() is false.
C3_FaultReflectedByIsStreaming ==
    fault => ~is_streaming

\* C5: start() on a running streamer goes no further than the is_running
\* test, returns without raising, and leaves every field, the number of
\* pipelines constructed, of activations and of workers as they were.
C5_StartWhileRunningIsNoOp ==
    (last_op = "start" /\ pre.is_running)
    => /\ spc \in {"start_check", "idle"}
       /\ Snap = pre
       /\ is_running
       /\ spc = "idle" => last_res = "noop"

\* C5 witness: a start() made on a running streamer has returned.
C5_Witness ==
    /\ spc = "idle"
    /\ last_op = "start"
    /\ pre.is_running
    /\ last_res = "noop"

\* C6: stop() on a streamer on which start() was never called goes no
\* further than its first test and leaves the fields at their initial values.
C6_StopNeverStartedIsNoOp ==
    (last_op = "stop" /\ ~ever_started)
    => /\ spc \in {"stop_check", "idle"}
       /\ StreamerInit
       /\ spc = "idle" => last_res = "ok"

\* C6 witness: stop() has returned on a never-started streamer.
C6_Witness ==
    /\ spc = "idle"
    /\ last_op = "stop"
    /\ ~ever_started
    /\ last_res = "ok"

\* C8: a stop() made by the owner on a running streamer returns with
\* is_running false, no pipeline, loop or thread held and the pipeline forced
\* to null, whether or not the join timed out.
C8_TeardownUnconditional ==
    (spc = "idle" /\ last_op = "stop" /\ pre.is_running)
    => /\ last_res = "ok"
       /\ ~is_running
       /\ video_pipeline = None
       /\ loop = None
       /\ thread = None
       /\ pipes[pre.video_pipeline] = "null"

\* C8 witness: such a stop() has returned after its join timed out, the
\* worker still alive.
C8_Witness ==
    /\ spc = "idle"
    /\ last_op = "stop"
    /\ pre.is_running
    /\ timed_out
    /\ workers[pre.thread].st # "exited"

C12_HandlerOnlyQuitsLoop ==
    [][ (h' # h) =>
          /\ UNCHANGED <<video_source, settings, ctor_args, video_pipeline, audio_pipeline, loop,
                         thread, is_running, _stop_requested, pipes>>
          /\ Len(workers') = Len(workers)
          /\ \A k \in 1..Len(workers) :
                /\ workers'[k].st = workers[k].st
                /\ workers'[k].run # workers[k].run
                   => /\ k = loop
                      /\ ~workers'[k].run
                      /\ h.t \in {"ERROR", "EOS"}
      ]_vars

\* C12 witness: an Error handler has returned on a running streamer: the
\* loop is quit, the pipeline is still playing and held, the thread held.
C12_Witness ==
    /\ h = NoHandler
    /\ fault
    /\ is_running
    /\ video_pipeline # None
    /\ pipes[video_pipeline] = "playing"
    /\ loop # None
    /\ ~workers[loop].run
    /\ thread # None
    /\ workers[thread].st = "looping"

\* C14: at most one worker started by the streamer is alive at any time.
C14_AtMostOneWorkerAlive ==
    Cardinality({k \in 1..Len(workers) :
                    workers[k].st \in {"spawned", "looping"}}) <= 1

\* C15: at most one constructed pipeline has not been forced to null.
C15_AtMostOneLivePipeline ==
    Cardinality({p \in 1..Len(pipes) : pipes[p] # "null"}) <= 1

----------------------------------------------------------------------------
\* Properties of DoorbellManager (specifications SpecMgr and FairSpecMgr)

\* C4: once DoorbellManager.start() has raised, state is ERROR.
C4_FailedStartLeavesError ==
    (mpc = "idle" /\ m_last_op = "start" /\ m_last_res = "raised")
    => state = "ERROR"

\* C7 as stated: in every reachable state, state is RUNNING iff a streamer
\* is held and reports is_streaming().
C7_RunningIffStreaming ==
    (state = "RUNNING") <=> (camera_streamer /\ is_streaming)

\* C7 amended: state RUNNING implies in every reachable state that a
\* streamer is held and reports is_streaming(); the converse holds whenever
\* no DoorbellManager.start() or stop() call is in progress.
C7_RunningIffStreamingBetweenCalls ==
    /\ (state = "RUNNING") => (camera_streamer /\ is_streaming)
    /\ mpc = "idle" =>
          ((state = "RUNNING") <=> (camera_streamer /\ is_streaming))

\* C7 witness: the service is RUNNING between calls after a bus Error.
C7_Witness ==
    /\ mpc = "idle"
    /\ state = "RUNNING"
    /\ camera_streamer
    /\ is_streaming
    /\ fault

\* C9: every CameraStreamer.stop() and every DoorbellManager.stop() that is
\* entered returns, whatever the workers do.
C9_StopTerminates ==
    /\ (spc \in StopPcs) ~> (spc = "idle")
    /\ (mpc \in MStopPcs) ~> (mpc = "idle")

\* C9 witness: DoorbellManager.stop() has returned although the worker it
\* joined has not exited.
C9_Witness ==
    /\ mpc = "idle"
    /\ m_last_op = "stop"
    /\ m_last_res = "ok"
    /\ last_op = "stop"
    /\ timed_out
    /\ workers[pre.thread].st # "exited"

----------------------------------------------------------------------------
\* Properties of a CameraStreamer stopped from its worker (SpecWorkerStop)

\* C11: a stop() executed by the worker that self.thread designates returns
\* without raising and without joining: is_running is false, the pipeline is
\* forced to null and released, the loop is released and the thread is still
\* held; and a stop() made next by the owner returns with the thread released.
C11_StopOnWorkerDoesNotSelfJoin ==
    /\ (spc = "idle" /\ last_op = "worker_stop" /\ pre.thread = cur
            /\ (pre.is_running \/ pre.stop_requested))
       => /\ last_res = "ok"
          /\ ~is_running
          /\ video_pipeline = None
          /\ loop = None
          /\ pre.video_pipeline # None => pipes[pre.video_pipeline] = "null"
          /\ thread = cur
          /\ ~timed_out
    /\ (spc = "idle" /\ last_op = "stop" /\ prev_op = "worker_stop")
       => /\ last_res = "ok"
          /\ ~is_running
          /\ video_pipeline = None /\ loop = None /\ thread = None

\* C11 witness: the owner's stop() has returned after a stop() that the
\* worker executed on a running streamer; it joined and released that worker.
C11_Witness ==
    /\ spc = "idle"
    /\ last_op = "stop"
    /\ prev_op = "worker_stop"
    /\ pre.thread # None
    /\ ~pre.is_running
    /\ thread = None

----------------------------------------------------------------------------
\* Properties of DoorbellManager.stop() (SpecMgr)

\* C16: stop() is carried out in state STOPPING, which is entered from
\* RUNNING or ERROR only, and STOPPED is entered from STOPPING only; a stop()
\* made in another state than STOPPED, and the stop() of a start() that
\* raised (streamer started or not), end with state STOPPED and the streamer
\* stopped and released; a stop() made in state STOPPED goes no further than
\* its first test and changes nothing.
C16_StopPassesThroughStopping ==
    /\ [](/\ mpc \in {"m_stop_camera", "m_camera_stop_wait", "m_stopped"}
             => state = "STOPPING"
          /\ (mpc = "idle" /\ m_last_op = "stop" /\ m_pre.state # "STOPPED")
             => /\ m_last_res = "ok"
                /\ state = "STOPPED"
                /\ ~camera_streamer
                /\ ~is_running
          /\ (mpc = "idle" /\ m_last_op = "start" /\ m_last_res = "raised")
             => /\ state = "STOPPED"
                /\ ~camera_streamer
          /\ (m_last_op = "stop" /\ m_pre.state = "STOPPED")
             => /\ mpc \in {"m_stop_check", "idle"}
                /\ MSnap = m_pre
                /\ mpc = "idle" => m_last_res = "ok")
    /\ [][/\ (state' # state /\ state' = "STOPPED") => state = "STOPPING"
          /\ (state' # state /\ state' = "STOPPING")
             => state \in {"RUNNING", "ERROR"}
         ]_vars

\* C16 witness: a stop() made in state RUNNING has returned, the pipeline of
\* the streamer forced to null.
C16_Witness ==
    /\ mpc = "idle"
    /\ m_last_op = "stop"
    /\ m_pre.state = "RUNNING"
    /\ state = "STOPPED"
    /\ ~camera_streamer
    /\ Len(pipes) > 0
    /\ pipes[Len(pipes)] = "null"

----------------------------------------------------------------------------
\* Properties of DoorbellManager.run() (SpecRun and FairSpecRun)

LoopPcs == {"r_loop", "r_sleep", "r_status"}

\* C13: a bus Error handled while the service is RUNNING is followed by the
\* stream leaving the running state and the service leaving RUNNING.
C13_FaultTriggersStop ==
    (fault /\ is_running /\ state = "RUNNING")
    ~> (~is_running /\ state # "RUNNING")

\* C17 as stated: a run() in progress with the shutdown flag set, the
\* signal having come before, during or after start(), returns with state
\* STOPPED.
C17_RunReturnsAfterSignal ==
    (rpc # "idle" /\ _shutdown_requested)
    ~> (rpc = "idle" /\ r_res = "returned" /\ state = "STOPPED")

\* C17: once the supervisory loop is entered with the shutdown flag set or
\* the state other than RUNNING, run() returns with state STOPPED, stop()
\* executed and the streamer released; a run() in progress with the flag
\* set, wherever it is (before, inside or after start()), ends with state
\* STOPPED and stop() executed, by returning, or when its start() raised by
\* passing that error on.
C17_RunExitsAndStops ==
    /\ (rpc \in LoopPcs /\ (_shutdown_requested \/ state # "RUNNING"))
       ~> (rpc = "idle" /\ r_res = "returned" /\ state = "STOPPED")
    /\ (rpc # "idle" /\ _shutdown_requested)
       ~> /\ rpc = "idle"
          /\ state = "STOPPED"
          /\ n_shutdown = 1
          /\ \/ r_res = "returned"
             \/ r_res = "raised" /\ m_last_res = "raised"
    /\ []((rpc = "idle" /\ r_res = "returned")
          => (state = "STOPPED" /\ ~camera_streamer /\ m_last_op = "stop"))

\* C17 witness: run() has returned after a signal, the stream having been
\* started.
C17_Witness ==
    /\ rpc = "idle"
    /\ r_res = "returned"
    /\ _shutdown_requested
    /\ state = "STOPPED"
    /\ Len(workers) > 0

\* C18: during a run() the shutdown sequence of stop() is executed at most
\* once, and exactly once by the time run() has ended, however many signals
\* were delivered; the signal handler sets the flag and changes nothing else.
C18_SignalsShutDownOnce ==
    /\ [](/\ n_shutdown <= 1
          /\ (rpc = "idle" /\ r_res \in {"returned", "raised"})
             => n_shutdown = 1)
    /\ [][nsignals' # nsignals
          => /\ _shutdown_requested'
             /\ UNCHANGED <<sfields, engine, owner, history, state,
                            camera_streamer, mpc, rpc, r_res, n_shutdown>>
         ]_vars

\* C18 witness: run() has returned after two signals.
C18_Witness ==
    /\ rpc = "idle"
    /\ r_res = "returned"
    /\ nsignals >= 2
    /\ n_shutdown = 1

\* C20: in every reachable state get_status() returns a status: its state
\* is the manager's, and with no streamer held its camera block reports
\* streaming false and empty stats; the call made by run() changes nothing
\* but the position of run().
C20_GetStatusNeverFails ==
    /\ [](/\ DOMAIN get_status = {"state", "uptime_seconds", "camera",
                                  "audio", "button", "matter"}
          /\ get_status.state = state
          /\ ~camera_streamer
             => /\ get_status.camera.streaming = FALSE
                /\ get_status.camera.stats = EmptyStats
          /\ camera_streamer
             => /\ get_status.camera.streaming = is_running
                /\ get_status.camera.stats = get_stats)
    /\ [][(rpc = "r_status" /\ rpc' # rpc)
          => UNCHANGED <<sfields, engine, owner, history, cfg_source, audiov, mainv, r_res,
                         registered, nsignals, m_pre, n_shutdown, state,
                         camera_streamer, _shutdown_requested, mpc,
                         m_stop_ret, m_last_op, m_last_res>>
         ]_vars

\* C20 witness: the manager is in state ERROR with no streamer held.
C20_Witness ==
    /\ state = "ERROR"
    /\ ~camera_streamer
    /\ get_status.state = "ERROR"
    /\ get_status.camera.stats = EmptyStats

----------------------------------------------------------------------------
\* Properties of get_stats() over the constructor's arguments (SpecStats)

\* A streamer constructed with any of the arguments of CtorArgs.
InitStats ==
    /\ video_source \in CameraSource
    /\ ctor_args \in CtorArgs
    /\ cfg_source = "test"
    /\ StreamerInit
    /\ HistoryInit
    /\ ManagerInit

SpecStats == InitStats /\ [][Next]_vars

RECURSIVE Num(_)
\* The number a sequence of decimal digits denotes.
Num(ds) ==
    IF ds = << >>
    THEN 0
    ELSE 10 * Num(SubSeq(ds, 1, Len(ds) - 1))
         + (CHOOSE d \in 0..9 : Digit[d + 1] = ds[Len(ds)])

\* The position of the "x" of a resolution.
XAt(res) == CHOOSE i \in 1..Len(res) : res[i] = "x"

\* C19: between calls a running streamer holds its pipeline, and whenever
\* it is running and holds it get_stats() is the constructor's arguments:
\* rtsp_url "rtsp://<host>:<port>/<name>", a resolution that reads back as
\* width "x" height, framerate and video_bitrate, with is_running true,
\* audio_enabled false; no step in which it stays running changes the stats.
C19_StatsEchoConstruction ==
    /\ [](/\ (is_running /\ spc = "idle") => video_pipeline # None
          /\ (is_running /\ video_pipeline # None)
             => /\ DOMAIN get_stats = {"is_running", "rtsp_url", "resolution",
                                       "framerate", "video_bitrate",
                                       "audio_enabled", "audio_bitrate"}
                /\ get_stats.is_running = TRUE
                /\ get_stats.audio_enabled = FALSE
                /\ get_stats.audio_bitrate = 0
                /\ get_stats.framerate = ctor_args.framerate
                /\ get_stats.video_bitrate = ctor_args.video_bitrate
                /\ get_stats.rtsp_url
                   = <<"rtsp://", ctor_args.rtsp_host, ":">>
                     \o Str(ctor_args.rtsp_port)
                     \o <<"/", ctor_args.stream_name>>
                /\ LET res == get_stats.resolution
                   IN  /\ \E i \in 1..Len(res) : res[i] = "x"
                       /\ Num(SubSeq(res, 1, XAt(res) - 1)) = ctor_args.width
                       /\ Num(SubSeq(res, XAt(res) + 1, Len(res)))
                          = ctor_args.height)
    /\ [][(is_running /\ video_pipeline # None
           /\ is_running' /\ video_pipeline' # None)
          => get_stats' = get_stats]_vars

\* C19 witness: a streamer constructed with arguments other than the
\* defaults is running between calls and reports them.
C19_Witness ==
    /\ is_running
    /\ spc = "idle"
    /\ last_op = "start"
    /\ ctor_args # DefaultArgs
    /\ get_stats.framerate = 15
    /\ get_stats.resolution = <<"6", "4", "0", "x", "4", "8", "0">>

----------------------------------------------------------------------------
\* Properties of the pipeline string (SpecBuild): start() up to the string
\* it hands to Gst.parse_launch, over a range of configurations.

Framerates == {1, 15, 30, 60}
Bitrates == {1, 999, 1000, 500000, 1234567, 2000000}

BuildArgs ==
    {[DefaultArgs EXCEPT !.framerate = f, !.video_bitrate = b,
                         !.use_hardware_encoding = e] :
        f \in Framerates, b \in Bitrates, e \in BOOLEAN}

InitBuild ==
    /\ video_source \in VideoSourceValues
    /\ ctor_args \in BuildArgs
    /\ cfg_source = "test"
    /\ StreamerInit
    /\ HistoryInit
    /\ ManagerInit

NextBuild ==
    \/ CallStart
    \/ StartCheck
    \/ StartBuild

SpecBuild == InitBuild /\ [][NextBuild]_vars

\* The positions of the "!" pieces of ps, and the k-th of them.
Bangs(ps) == {i \in 1..Len(ps) : ps[i] = "!"}
NthBang(ps, k) ==
    CHOOSE i \in Bangs(ps) : Cardinality({j \in Bangs(ps) : j < i}) = k - 1

\* The stages of a pipeline string: its pieces between the "!" pieces.
Split(ps) ==
    LET n == Cardinality(Bangs(ps)) + 1
    IN  [k \in 1..n |->
            SubSeq(ps,
                   IF k = 1 THEN 1 ELSE NthBang(ps, k - 1) + 1,
                   IF k = n THEN Len(ps) ELSE NthBang(ps, k) - 1)]

SourceElements == {"videotestsrc", "v4l2src", "libcamerasrc"}
EncoderElements == {"v4l2h264enc", "x264enc"}

\* The stages of st whose element is in es.
StagesOf(st, es) == {i \in 1..Len(st) : st[i][1] \in es}

\* C21: the string built for a source of CameraSource, either encoder
\* preference, is a chain of non-empty stages: the first is the source
\* element of the configured kind and the only source, the last is
\* rtspclientsink and the only sink, and there is exactly one encoder, one
\* videoconvert before it and one h264parse after it.
C21_PipelineShape ==
    video_pipeline_str # NoString
    => LET st == Split(video_pipeline_str)
           n  == Len(st)
       IN  /\ video_source \in CameraSource
           /\ \A i \in 1..n : st[i] # << >>
           /\ st[1] = SourceElement[video_source]
           /\ StagesOf(st, SourceElements) = {1}
           /\ StagesOf(st, {"rtspclientsink"}) = {n}
           /\ Cardinality(StagesOf(st, EncoderElements)) = 1
           /\ Cardinality(StagesOf(st, {"videoconvert"})) = 1
           /\ Cardinality(StagesOf(st, {"h264parse"})) = 1
           /\ \A c \in StagesOf(st, {"videoconvert"}),
                 e \in StagesOf(st, EncoderElements),
                 p \in StagesOf(st, {"h264parse"}) : c < e /\ e < p /\ p < n

\* C21 witness: the string was built for the libcamera source and the
\* software encoder; it has eight stages.
C21_Witness ==
    /\ spc = "start_parse"
    /\ video_source = "libcamera"
    /\ ~settings.use_hardware_encoding
    /\ Len(Split(video_pipeline_str)) = 8
    /\ Split(video_pipeline_str)[5][1] = "x264enc"

DigitSet == {Digit[i] : i \in 1..10}

RECURSIVE DigitsFrom(_, _)
\* The digits of ps from position i on, up to the first other piece.
DigitsFrom(ps, i) ==
    IF i > Len(ps) \/ ps[i] \notin DigitSet
    THEN << >>
    ELSE <<ps[i]>> \o DigitsFrom(ps, i + 1)

\* The number written after the piece key of stage ps.
ValueOf(ps, key) ==
    Num(DigitsFrom(ps, (CHOOSE i \in 1..Len(ps) : ps[i] = key) + 1))

\* The pieces of stage ps.
Pieces(ps) == {ps[i] : i \in 1..Len(ps)}

\* C23: with software-only encoding the x264enc stage has bitrate = v with
\* 1000*v <= b < 1000*(v+1), key-int-max = 2*f, bframes=0 and
\* tune=zerolatency, for the framerate f and bitrate b of the constructor;
\* b = 2000000 and f = 30 give 2000 and 60.
C23_SoftwareEncoderSettings ==
    (video_pipeline_str # NoString /\ ~ctor_args.use_hardware_encoding)
    => LET st  == Split(video_pipeline_str)
           enc == st[CHOOSE i \in 1..Len(st) : st[i][1] = "x264enc"]
           v   == ValueOf(enc, "bitrate=")
           k   == ValueOf(enc, "key-int-max=")
       IN  /\ \E i \in 1..Len(st) : st[i][1] = "x264enc"
           /\ {"bitrate=", "key-int-max=", "bframes=0", "tune=zerolatency"}
              \subseteq Pieces(enc)
           /\ DigitsFrom(enc, 3) # << >>
           /\ 1000 * v <= ctor_args.video_bitrate
           /\ ctor_args.video_bitrate < 1000 * (v + 1)
           /\ k = 2 * ctor_args.framerate
           /\ (ctor_args.video_bitrate = 2000000 /\ ctor_args.framerate = 30)
              => (v = 2000 /\ k = 60)

\* C23 witness: the string was built for the software encoder with a
\* bitrate that is not a multiple of 1000.
C23_Witness ==
    /\ spc = "start_parse"
    /\ ~ctor_args.use_hardware_encoding
    /\ ctor_args.video_bitrate = 1234567
    /\ ctor_args.framerate = 15
    /\ ValueOf(Split(video_pipeline_str)[5], "bitrate=") = 1234
    /\ ValueOf(Split(video_pipeline_str)[5], "key-int-max=") = 30

----------------------------------------------------------------------------
\* Properties of an unknown video source (SpecConfig): a streamer used on
\* its own, constructed with any source, or a manager configured with any
\* source string.

\* The value of cfg_source when no DoorbellManager is in use.
NoManager == "unused"

InitConfig ==
    \/ /\ video_source \in VideoSourceValues
       /\ ctor_args = DefaultArgs
       /\ cfg_source = NoManager
       /\ StreamerInit
       /\ HistoryInit
       /\ ManagerInit
    \/ InitMgr

NextConfig ==
    \/ cfg_source = NoManager /\ Next
    \/ cfg_source # NoManager /\ NextMgr

SpecConfig == InitConfig /\ [][NextConfig]_vars

\* C22: a streamer whose video source is not a member of CameraSource never
\* builds a string, constructs or activates a pipeline, starts a worker or
\* is running, and each of its start() calls ends by raising ValueError; a
\* manager whose source string is not a key never holds a streamer, and each
\* of its start() calls ends by raising, nothing constructed and nothing
\* running.
C22_UnknownSourceBuildsNothing ==
    /\ video_source \notin CameraSource
       => /\ video_pipeline_str = NoString
          /\ pipes = << >>
          /\ workers = << >>
          /\ nact = 0
          /\ video_pipeline = None
          /\ ~is_running
          /\ (spc = "idle" /\ last_op = "start")
             => (last_res = "raised" /\ err = "ValueError")
    /\ (cfg_source # NoManager /\ cfg_source \notin CameraSource)
       => /\ ~camera_streamer
          /\ state # "RUNNING"
          /\ pipes = << >>
          /\ workers = << >>
          /\ ~is_running
          /\ spc = "idle"
          /\ (mpc = "idle" /\ m_last_op = "start")
             => (m_last_res = "raised" /\ state = "STOPPED")

\* C22 witness: start() of a streamer with an unknown source has raised
\* ValueError.
C22_Witness ==
    /\ video_source \notin CameraSource
    /\ spc = "idle"
    /\ last_op = "start"
    /\ last_res = "raised"
    /\ err = "ValueError"
    /\ pipes = << >>

----------------------------------------------------------------------------
\* Properties of the audio source (SpecAudio): a streamer of the test
\* pattern constructed with any audio source.

AudioArgs == {[DefaultArgs EXCEPT !.audio_source = a] : a \in AudioSource}

InitAudio ==
    /\ video_source = "test"
    /\ ctor_args \in AudioArgs
    /\ cfg_source = "test"
    /\ StreamerInit
    /\ HistoryInit
    /\ ManagerInit

SpecAudio == InitAudio /\ [][Next]_vars

AudioElements == {"audiotestsrc", "alsasrc", "pulsesrc"}

----------------------------------------------------------------------------
\* main() (main.py:62-120): SpecMain, one DoorbellManager whose video source
\* is one of the choices of --camera, run once.

InitMain ==
    /\ InitMgr
    /\ cfg_source \in CameraSource

\* main.py:107-110: the manager is constructed and run() entered, inside the
\* try statement
MainCall ==
    /\ main_pc = "none"
    /\ rpc = "idle"
    /\ mpc = "idle"
    /\ m_last_op = "none"
    /\ InvokeRun
    /\ main_pc' = "try"
    /\ UNCHANGED <<sfields, engine, owner, history, cfg_source, audiov, exit_code,
                   registered, nsignals, m_pre, state, camera_streamer,
                   _shutdown_requested, mpc, m_stop_ret, m_last_op,
                   m_last_res>>

\* SIGINT delivered inside run() before line 234 has replaced Python's
\* default handler: KeyboardInterrupt is raised and ends run().
KeyboardInterrupt ==
    /\ main_pc = "try"
    /\ rpc = "r_register"
    /\ ~registered
    /\ nsignals < MaxSignals
    /\ nsignals' = nsignals + 1
    /\ rpc' = "idle"
    /\ r_res' = "interrupted"
    /\ UNCHANGED <<sfields, engine, owner, history, cfg_source, audiov, mainv,
                   registered, m_pre, n_shutdown, state, camera_streamer,
                   _shutdown_requested, mpc, m_stop_ret, m_last_op,
                   m_last_res>>

\* main() returning 0 whatever way run() ended.
MainReturn_AlwaysZero ==
    /\ main_pc = "try"
    /\ rpc = "idle"
    /\ exit_code' = <<0>>
    /\ main_pc' = "exited"
    /\ UNCHANGED <<sfields, engine, owner, history, cfg_source, audiov, runv, m_pre,
                   n_shutdown, state, camera_streamer, _shutdown_requested,
                   mpc, m_stop_ret, m_last_op, m_last_res>>

\* main.py:110-120: run() has returned or raised KeyboardInterrupt, return 0;
\* it has raised an Exception, return 1
MainReturn ==
    /\ main_pc = "try"
    /\ rpc = "idle"
    /\ exit_code' = IF r_res = "raised" THEN <<1>> ELSE <<0>>
    /\ main_pc' = "exited"
    /\ UNCHANGED <<sfields, engine, owner, history, cfg_source, audiov, runv, m_pre,
                   n_shutdown, state, camera_streamer, _shutdown_requested,
                   mpc, m_stop_ret, m_last_op, m_last_res>>

NextMain ==
    \/ MainCall
    \/ KeyboardInterrupt
    \/ MainReturn
    \/ RunStep
    \/ SignalHandler
    \/ ManagerStep
    \/ StreamerStep
    \/ EngineStep

SpecMain == InitMain /\ [][NextMain]_vars

\* C25: main() returns 1 exactly when the start() made by run() raised, and
\* 0 when run() returned (its loop left on a signal) or was ended by
\* KeyboardInterrupt; before it returns there is no exit code.
C25_ExitCodeReportsStartFailure ==
    /\ main_pc # "exited" => exit_code = << >>
    /\ main_pc = "exited"
       => /\ exit_code \in {<<0>>, <<1>>}
          /\ exit_code = <<1>> <=> (m_last_op = "start" /\ m_last_res = "raised")
          /\ exit_code = <<1>> <=> r_res = "raised"
          /\ exit_code = <<0>> <=> r_res \in {"returned", "interrupted"}
          /\ r_res = "returned" => (_shutdown_requested /\ state = "STOPPED")
          /\ r_res = "interrupted" => (nsignals > 0 /\ m_last_op = "none")

\* C25 witness: main() has returned 1 after a start() that failed to
\* activate its pipeline.
C25_Witness ==
    /\ main_pc = "exited"
    /\ exit_code = <<1>>
    /\ err = "activation"
    /\ m_last_res = "raised"

----------------------------------------------------------------------------
\* Properties of the handler running against stop() (Spec)

\* C26: no handler calls quit() on a loop attribute that is None.
C26_HandlerNeverQuitsNoneLoop == ~handler_error

----------------------------------------------------------------------------
\* Invariants between calls

\* C27: while no start() or stop() of the manager is in progress the state
\* is STOPPED or RUNNING and a streamer is held exactly in state RUNNING;
\* STARTING, STOPPING and ERROR are states of a call in progress.
C27_ManagerStateBetweenCalls ==
    /\ mpc = "idle"
       => /\ state \in {"STOPPED", "RUNNING"}
          /\ camera_streamer <=> state = "RUNNING"
    /\ state \in {"STARTING", "STOPPING", "ERROR"} => mpc # "idle"

\* C27 witness: a start() of the manager has returned, the streamer held.
C27_Witness ==
    /\ mpc = "idle"
    /\ m_last_op = "start"
    /\ m_last_res = "ok"
    /\ state = "RUNNING"
    /\ camera_streamer


\* C28: while no start() or stop() of the streamer is in progress, a
\* running streamer holds its pipeline, loop and thread and its stop flag
\* is clear; is_running becomes true only in start(), after the activation
\* of the pipeline just constructed succeeded, and no activation is made
\* while it is true, so whenever it is true the last activation succeeded.
C28_RunningHoldsResources ==
    /\ [](/\ (spc = "idle" /\ is_running)
             => /\ video_pipeline # None
                /\ loop # None
                /\ thread # None
                /\ ~_stop_requested
          /\ (is_running /\ video_pipeline # None)
             => pipes[video_pipeline] = "playing")
    /\ [][/\ (~is_running /\ is_running')
             => /\ spc = "start_running"
                /\ video_pipeline = Len(pipes)
                /\ pipes[video_pipeline] = "playing"
          /\ is_running => nact' = nact
          /\ (nact' # nact /\ pipes'[video_pipeline] = "failed")
             => (spc' = "start_except" /\ ~is_running')
         ]_vars

\* C28 witness: a second start() has returned on a streamer stopped in
\* between; it is running and holds the second pipeline and worker.
C28_Witness ==
    /\ spc = "idle"
    /\ is_running
    /\ last_op = "start"
    /\ prev_op = "stop"
    /\ video_pipeline = 2
    /\ loop = 2
    /\ thread = 2
    /\ ~_stop_requested


\* C29: a start() that follows a stop() and returns normally has
\* constructed a pipeline and a worker that did not exist before it, holds
\* exactly these (pipeline playing, loop and thread the new worker, no audio
\* pipeline), and leaves is_running true and _stop_requested false.
C29_Restartable ==
    (spc = "idle" /\ last_op = "start" /\ prev_op = "stop"
     /\ last_res \in {"ok", "noop"})
    => /\ last_res = "ok"
       /\ ~pre.is_running
       /\ is_running
       /\ ~_stop_requested
       /\ Len(pipes) = pre.npipes + 1
       /\ video_pipeline = Len(pipes)
       /\ pipes[video_pipeline] = "playing"
       /\ Len(workers) = pre.nworkers + 1
       /\ loop = Len(workers)
       /\ thread = Len(workers)
       /\ audio_pipeline = None

\* C29 witness: the streamer was started and stopped, the first loop quit,
\* and a further start() has returned: second pipeline and worker.
C29_Witness ==
    /\ spc = "idle"
    /\ last_op = "start"
    /\ prev_op = "stop"
    /\ last_res = "ok"
    /\ pre.nact = 1
    /\ ~workers[1].run
    /\ is_running
    /\ video_pipeline = 2
    /\ pipes = <<"null", "playing">>
    /\ thread = 2

----------------------------------------------------------------------------
\* Properties of the shutdown flag over several run() calls (FairSpecRun)

\* C30: no step resets _shutdown_requested; a run() entered with the flag
\* set still calls start(), its loop test with the flag set leads to the
\* finally clause and never to the sleep, and it ends with state STOPPED.
C30_ShutdownFlagIsMonotone ==
    /\ [][/\ _shutdown_requested => _shutdown_requested'
          /\ (_shutdown_requested /\ rpc = "r_loop" /\ rpc' # rpc)
             => rpc' = "r_finally"
          /\ (rpc = "r_register" /\ rpc' # rpc) => rpc' = "r_start"
         ]_vars
    /\ (_shutdown_requested /\ rpc = "r_register")
       ~> (rpc = "r_wait_start" /\ m_last_op = "start")
    /\ (_shutdown_requested /\ rpc = "r_register")
       ~> (rpc = "idle" /\ state = "STOPPED" /\ ~camera_streamer)

\* C30 witness: two run() calls have each started the stream and returned;
\* the first was ended by a signal, so the second was entered with the flag
\* set.
C30_Witness ==
    /\ rpc = "idle"
    /\ r_res = "returned"
    /\ _shutdown_requested
    /\ pipes = <<"null", "null">>
    /\ Len(workers) = 2
    /\ state = "STOPPED"

----------------------------------------------------------------------------
\* AudioManager (audio_manager.py): the capture and playback queues, the
\* calls of its owner and the threads of _capture_loop and _playback_loop.
\* The chunks of each side are numbered in the order they are offered to
\* its queue.

\* queue.Queue(maxsize=100) (audio_manager.py:61-62)
maxsize == 100

\* Bound: chunks read from the microphone, and chunks passed to queue_audio().
MaxChunks == 102

\* Bound: chunks produced on the side that produces fewer of them.
MaxBoth == 0

\* Bound: chunks taken out of the queues.
MaxGets == 1

\* Bound: threads started for the two loops together.
MaxAudioThreads == 1

\* Everything that is not a field or thread of the AudioManager.
rest == <<sfields, engine, owner, history, cfg_source, mainv, runv, m_pre,
          n_shutdown, state, camera_streamer, _shutdown_requested, mpc,
          m_stop_ret, m_last_op, m_last_res>>

\* A put_nowait() that makes room by discarding the oldest chunk.
put_nowait_DropOldest(q, item) ==
    IF Len(q) < maxsize THEN Append(q, item) ELSE Append(Tail(q), item)

\* Queue.put_nowait under "except queue.Full" (audio_manager.py:229-232,
\* 261-264): the queue after the call
put_nowait(q, item) ==
    IF Len(q) < maxsize THEN Append(q, item) ELSE q

\* audio_manager.py:116-155: start_capture(callback); audio.open may raise
StartCapture(callback) ==
    /\ ~is_capturing
    /\ callback \/ Len(cthreads) + Len(pthreads) < MaxAudioThreads
    /\ audio_callback' = callback
    /\ \/ /\ input_stream' = TRUE
          /\ is_capturing' = TRUE
          /\ IF callback
             THEN UNCHANGED <<capture_thread, cthreads>>
             ELSE /\ cthreads' = Append(cthreads, [pc |-> "check"])
                  /\ capture_thread' = Len(cthreads) + 1
       \/ UNCHANGED <<input_stream, is_capturing, capture_thread, cthreads>>
    /\ UNCHANGED <<audio_queue, playback_queue, is_playing, output_stream,
                   playback_thread, pthreads, n_captured, n_queued, audio_data, n_gets,
                   last_got, last_played, rest>>

\* audio_manager.py:157-174: stop_capture(); the join returns when the
\* thread has ended or after the timeout
StopCapture ==
    /\ is_capturing
    /\ is_capturing' = FALSE
    /\ input_stream' = FALSE
    /\ capture_thread' = None
    /\ UNCHANGED <<audio_queue, playback_queue, is_playing, output_stream,
                   audio_callback, playback_thread, cthreads, pthreads,
                   n_captured, n_queued, audio_data, n_gets, last_got, last_played, rest>>

\* audio_manager.py:255: the loop condition
CaptureCheck(k) ==
    /\ cthreads[k].pc = "check"
    /\ cthreads' = [cthreads EXCEPT
                      ![k].pc = IF is_capturing THEN "read" ELSE "done"]
    /\ UNCHANGED <<audio_queue, playback_queue, is_capturing, is_playing,
                   input_stream, output_stream, audio_callback,
                   capture_thread, playback_thread, pthreads, n_captured,
                   n_queued, audio_data, n_gets, last_got, last_played, rest>>

\* audio_manager.py:257-259, 265-270: a chunk is read from an open stream;
\* with no stream (or an error of read) the thread sleeps and tests again
CaptureRead(k) ==
    /\ cthreads[k].pc = "read"
    /\ IF input_stream
       THEN /\ n_captured < MaxChunks
            /\ n_captured < MaxBoth \/ n_queued <= MaxBoth
            /\ n_captured' = n_captured + 1
            /\ cthreads' = [cthreads EXCEPT ![k].pc = "put"]
       ELSE /\ cthreads' = [cthreads EXCEPT ![k].pc = "check"]
            /\ UNCHANGED n_captured
    /\ UNCHANGED <<audio_queue, playback_queue, is_capturing, is_playing,
                   input_stream, output_stream, audio_callback,
                   capture_thread, playback_thread, pthreads, n_queued, audio_data,
                   n_gets, last_got, last_played, rest>>

\* The number of the chunk a capture thread offers next: the chunks read
\* so far (audio_manager.py:259) less those still waiting to be put, plus one.
data ==
    n_captured + 1
        - Cardinality({k \in 1..Len(cthreads) : cthreads[k].pc = "put"})

\* audio_manager.py:261-264
CapturePut(k) ==
    /\ cthreads[k].pc = "put"
    /\ audio_queue' = put_nowait(audio_queue, data)
    /\ cthreads' = [cthreads EXCEPT ![k].pc = "check"]
    /\ UNCHANGED <<playback_queue, is_capturing, is_playing, input_stream,
                   output_stream, audio_callback, capture_thread,
                   playback_thread, pthreads, n_captured, n_queued, audio_data, n_gets,
                   last_got, last_played, rest>>

\* audio_manager.py:234-239: get_audio() returns the oldest chunk, or None
\* when the queue stays empty for the timeout
GetAudio ==
    /\ IF audio_queue # << >>
       THEN /\ n_gets < MaxGets
            /\ last_got' = Head(audio_queue)
            /\ audio_queue' = Tail(audio_queue)
            /\ n_gets' = n_gets + 1
       ELSE UNCHANGED <<last_got, audio_queue, n_gets>>
    /\ UNCHANGED <<playback_queue, is_capturing, is_playing, input_stream,
                   output_stream, audio_callback, capture_thread,
                   playback_thread, cthreads, pthreads, n_captured, n_queued, audio_data,
                   last_played, rest>>

\* audio_manager.py:227: queue_audio(audio_data) is called with the next chunk
QueueAudio ==
    /\ audio_data = None
    /\ n_queued < MaxChunks
    /\ n_queued < MaxBoth \/ n_captured <= MaxBoth
    /\ n_queued' = n_queued + 1
    /\ audio_data' = n_queued + 1
    /\ UNCHANGED <<audio_queue, playback_queue, is_capturing, is_playing,
                   input_stream, output_stream, audio_callback,
                   capture_thread, playback_thread, cthreads, pthreads,
                   n_captured, n_gets, last_got, last_played, rest>>

\* audio_manager.py:229-232: the body of queue_audio()
QueueAudioPut ==
    /\ audio_data # None
    /\ playback_queue' = put_nowait(playback_queue, audio_data)
    /\ audio_data' = None
    /\ UNCHANGED <<audio_queue, is_capturing, is_playing, input_stream,
                   output_stream, audio_callback, capture_thread,
                   playback_thread, cthreads, pthreads, n_captured, n_queued,
                   n_gets, last_got, last_played, rest>>

\* audio_manager.py:176-206: start_playback(); audio.open may raise
StartPlayback ==
    /\ ~is_playing
    /\ Len(cthreads) + Len(pthreads) < MaxAudioThreads
    /\ \/ /\ output_stream' = TRUE
          /\ is_playing' = TRUE
          /\ pthreads' = Append(pthreads, [pc |-> "check"])
          /\ playback_thread' = Len(pthreads) + 1
       \/ UNCHANGED <<output_stream, is_playing, pthreads, playback_thread>>
    /\ UNCHANGED <<audio_queue, playback_queue, is_capturing, input_stream,
                   audio_callback, capture_thread, cthreads, n_captured,
                   n_queued, audio_data, n_gets, last_got, last_played, rest>>

\* audio_manager.py:208-225: stop_playback()
StopPlayback ==
    /\ is_playing
    /\ is_playing' = FALSE
    /\ output_stream' = FALSE
    /\ playback_thread' = None
    /\ UNCHANGED <<audio_queue, playback_queue, is_capturing, input_stream,
                   audio_callback, capture_thread, cthreads, pthreads,
                   n_captured, n_queued, audio_data, n_gets, last_got, last_played, rest>>

\* audio_manager.py:278: the loop condition
PlaybackCheck(k) ==
    /\ pthreads[k].pc = "check"
    /\ pthreads' = [pthreads EXCEPT
                      ![k].pc = IF is_playing THEN "get" ELSE "done"]
    /\ UNCHANGED <<audio_queue, playback_queue, is_capturing, is_playing,
                   input_stream, output_stream, audio_callback,
                   capture_thread, playback_thread, cthreads, n_captured,
                   n_queued, audio_data, n_gets, last_got, last_played, rest>>

\* audio_manager.py:281-287: the oldest chunk is taken and written to the
\* stream if one is open, or the get times out on an empty queue
PlaybackGet(k) ==
    /\ pthreads[k].pc = "get"
    /\ IF playback_queue # << >>
       THEN /\ n_gets < MaxGets
            /\ last_played' = Head(playback_queue)
            /\ playback_queue' = Tail(playback_queue)
            /\ n_gets' = n_gets + 1
       ELSE UNCHANGED <<last_played, playback_queue, n_gets>>
    /\ pthreads' = [pthreads EXCEPT ![k].pc = "check"]
    /\ UNCHANGED <<audio_queue, is_capturing, is_playing, input_stream,
                   output_stream, audio_callback, capture_thread,
                   playback_thread, cthreads, n_captured, n_queued, audio_data, last_got,
                   rest>>

CaptureStep == \E k \in 1..Len(cthreads) :
    \/ CaptureCheck(k)
    \/ CaptureRead(k)
    \/ CapturePut(k)

PlaybackStep == \E k \in 1..Len(pthreads) :
    \/ PlaybackCheck(k)
    \/ PlaybackGet(k)

NextQueues ==
    \/ \E callback \in BOOLEAN : StartCapture(callback)
    \/ StopCapture
    \/ GetAudio
    \/ QueueAudio
    \/ QueueAudioPut
    \/ StartPlayback
    \/ StopPlayback
    \/ CaptureStep
    \/ PlaybackStep

SpecQueues == Init /\ [][NextQueues]_vars

\* A capture thread k completes its put_nowait in this step.
CapturePuts(k) ==
    /\ k \in 1..Len(cthreads)
    /\ cthreads[k].pc = "put"
    /\ cthreads'[k].pc # "put"

\* The queue after a producer offers item to queue q, as C31 states it: a
\* full queue is left as it is, otherwise the item goes to the end.
Offered(q, item) ==
    IF Len(q) >= maxsize THEN q ELSE q \o <<item>>

\* The queues never hold more than maxsize chunks, a producer that holds a
\* chunk can always complete its put, and the accepted chunks wait in the
\* order they were offered in, all later than the last one delivered.
C31_QueueState ==
    /\ Len(audio_queue) <= maxsize
    /\ Len(playback_queue) <= maxsize
    /\ \A k \in 1..Len(cthreads) :
          cthreads[k].pc = "put" => ENABLED CapturePut(k)
    /\ audio_data # None => ENABLED QueueAudioPut
    /\ \A i \in 1..Len(audio_queue) :
          /\ audio_queue[i] > last_got
          /\ i > 1 => audio_queue[i - 1] < audio_queue[i]
    /\ \A i \in 1..Len(playback_queue) :
          /\ playback_queue[i] > last_played
          /\ i > 1 => playback_queue[i - 1] < playback_queue[i]

\* Every step treats the queues as bounded FIFO queues: a put appends the
\* new chunk at the end or, on a full queue, drops it and changes nothing; a
\* get delivers the oldest chunk and removes it; nothing else touches them.
C31_QueueStep ==
    /\ \A k \in 1..Len(cthreads) : CapturePuts(k) =>
          /\ audio_queue' = Offered(audio_queue, data)
          /\ cthreads'[k].pc = "check"
    /\ (audio_data # None /\ audio_data' = None) =>
          playback_queue' = Offered(playback_queue, audio_data)
    /\ last_got' # last_got =>
          /\ audio_queue # << >>
          /\ last_got' = audio_queue[1]
          /\ audio_queue' = SubSeq(audio_queue, 2, Len(audio_queue))
    /\ last_played' # last_played =>
          /\ playback_queue # << >>
          /\ last_played' = playback_queue[1]
          /\ playback_queue' = SubSeq(playback_queue, 2, Len(playback_queue))
    /\ audio_queue' # audio_queue =>
          \/ \E k \in 1..Len(cthreads) : CapturePuts(k)
          \/ last_got' # last_got
    /\ playback_queue' # playback_queue =>
          \/ audio_data # None /\ audio_data' = None
          \/ last_played' # last_played

====
